---- MODULE Spec2Model ----
(***************************************************************************)
(* AI Job Matcher (src/main.py): the startup initialisation of the FAISS   *)
(* index and the job corpus, the /analyze request handler, and the match   *)
(* scorer, as a state machine.                                             *)
(*                                                                         *)
(* Numbers.  Python floats are modelled by exact rationals [num, den];     *)
(* a percentage round(x * 100, 1) is held as an integer number of tenths   *)
(* of a percent (1000 = 100.0).                                            *)
(***************************************************************************)
EXTENDS Integers, Sequences, FiniteSets, TLC

VARIABLES
    jobsFile,      \* disk: job_dataset.json (absent, unreadable or a list of jobs)
    faissDir,      \* disk: faiss_index/ (absent, unreadable or a list of entries)
    lifespan_pc,   \* where the lifespan coroutine stands
    vectorstore,   \* global vectorstore (None or a list of index entries)
    jobs_list,     \* global jobs_list
    initCount,     \* how many times the lifespan body was entered in this process
    files,         \* disk: the temp_<filename> files, by filename
    req,           \* the /analyze requests in flight, by request
    call,          \* one call of calculate_score (specification SpecScore)
    rank           \* one pass of the ranking steps (specification SpecRank)

vars == <<jobsFile, faissDir, lifespan_pc, vectorstore, jobs_list, initCount,
          files, req, call, rank>>

serverVars == <<jobsFile, faissDir, lifespan_pc, vectorstore, jobs_list,
                initCount, files, req>>

----------------------------------------------------------------------------
(* Bounds of the model *)

MaxSkills == 2      \* longest skill list drawn for a call of calculate_score
MaxDistNum == 4     \* distances are 0/DistDen .. MaxDistNum/DistDen
DistDen == 3

(* Program constants *)

CorpusLimit == 100          \* json.load(f)[:100]
TopK == 5                   \* similarity_search_with_score(text, k=5)
SemWeightTenths == 5        \* semantic_score * 0.5
SkillWeightTenths == 3      \* skill_score * 0.3
BaselineTenths == 8         \* 0.8
BaseWeightTenths == 2       \* * 0.2
MissingOrdinal == -1        \* doc.metadata.get("index", -1)

\* The global vectorstore: None, or a FAISS index (its entries in order).
None == [isNone |-> TRUE]
Index(entries) == [isNone |-> FALSE, entries |-> entries]

\* A path on disk: absent, unreadable, or holding data.
AbsentPath == [state |-> "absent"]
CorruptPath == [state |-> "corrupt"]
Stored(data) == [state |-> "ok", data |-> data]

----------------------------------------------------------------------------
(* Python helpers *)

Range(s) == {s[i] : i \in 1..Len(s)}

\* dict.get(key, default)
Get(d, key, default) == IF key \in DOMAIN d THEN d[key] ELSE default

\* seq[:n]
Take(s, n) == IF Len(s) <= n THEN s ELSE SubSeq(s, 1, n)

Min(a, b) == IF a <= b THEN a ELSE b

\* The skill strings of the model and str.lower() on them.
SkillStrings == {"Python", "python", "SQL", "sql"}

Lower(s) ==
    CASE s = "Python" -> "python"
      [] s = "SQL"    -> "sql"
      [] OTHER        -> s

\* set(s.lower() for s in xs)
LowerSet(xs) == {Lower(x) : x \in Range(xs)}

\* round(x, 0) of the rational n/d >= 0: round half to even, as Python's round.
RoundHalfEven(n, d) ==
    LET q == n \div d
        r == n % d
    IN  IF 2 * r < d THEN q
        ELSE IF 2 * r > d THEN q + 1
        ELSE IF q % 2 = 0 THEN q ELSE q + 1

\* round(x * 100, 1) of the rational x = n/d, in tenths of a percent.
Percent(x) == RoundHalfEven(1000 * x.num, x.den)

\* 1 / (1 + float(dist)) for the distance dist = num/den.
Similarity(dist) == [num |-> dist.den, den |-> dist.den + dist.num]

----------------------------------------------------------------------------
(* calculate_score *)

\* Faulty variant: the baseline 0.8 added without its 0.2 weight.
FinalScore_unweighted(semantic_score, skill_score) ==
    [num |-> 10 * SemWeightTenths * semantic_score.num * skill_score.den
             + 10 * SkillWeightTenths * skill_score.num * semantic_score.den
             + 10 * BaselineTenths * semantic_score.den * skill_score.den,
     den |-> 100 * semantic_score.den * skill_score.den]

\* final = (semantic_score * 0.5) + (skill_score * 0.3) + (0.8 * 0.2)
FinalScore(semantic_score, skill_score) ==
    [num |-> 10 * SemWeightTenths * semantic_score.num * skill_score.den
             + 10 * SkillWeightTenths * skill_score.num * semantic_score.den
             + BaselineTenths * BaseWeightTenths
               * semantic_score.den * skill_score.den,
     den |-> 100 * semantic_score.den * skill_score.den]

\* len(my_skills & job_skills) / len(job_skills) if job_skills else 0
SkillScore(my_skills, job_skills) ==
    IF job_skills # {}
    THEN [num |-> Cardinality(my_skills \cap job_skills),
          den |-> Cardinality(job_skills)]
    ELSE [num |-> 0, den |-> 1]

\* Faulty variant: the difference taken on the stored strings of the job.
MissingSkills_stored(job, my_skills) ==
    {s \in Range(Get(job, "Skills", <<>>)) : Lower(s) \notin my_skills}

\* list(job_skills - my_skills), with job_skills the lower-cased set
MissingSkills(job, my_skills) ==
    LowerSet(Get(job, "Skills", <<>>)) \ my_skills

calculate_score(resume_skills, job, semantic_score) ==
    LET job_skills  == LowerSet(Get(job, "Skills", <<>>))
        my_skills   == LowerSet(resume_skills)
        skill_score == SkillScore(my_skills, job_skills)
        final       == FinalScore(semantic_score, skill_score)
    IN  [total_score    |-> Percent(final),
         semantic_score |-> Percent(semantic_score),
         skill_match    |-> Percent(skill_score),
         missing_skills |-> MissingSkills(job, my_skills)]

----------------------------------------------------------------------------
(* The job corpus and the FAISS index *)

JobA == [JobID |-> "J1", Title |-> "Data Engineer", Location |-> "Berlin",
         Responsibilities |-> <<"build pipelines">>,
         Skills |-> <<"Python", "SQL">>]
JobB == [JobID |-> "J2", Title |-> "Analyst", Skills |-> <<"sql">>]
JobC == [Title |-> "Office Assistant", Responsibilities |-> <<"filing">>]

Catalogue == <<JobA, JobB, JobC>>

\* _job_text(job): the title, the responsibilities and the skills, in that order
\* (the three parts of the formatted string, kept apart).
job_text(job) ==
    <<Get(job, "Title", ""), Get(job, "Responsibilities", <<>>),
      Get(job, "Skills", <<>>)>>

\* FAISS.from_texts(texts, embeddings, metadatas=metas) with
\* texts = [_job_text(j) for j in jobs], metas = [{"index": i} for i in range(len(jobs))]
from_texts(jobs) ==
    [i \in 1..Len(jobs) |->
        [text |-> job_text(jobs[i]), metadata |-> [index |-> i - 1]]]

\* An index directory written by another program: no "index" metadata.
ForeignIndex(jobs) ==
    [i \in 1..Len(jobs) |-> [text |-> job_text(jobs[i]), metadata |-> <<>>]]

\* The sequences of n distances, ascending, drawn from the numerators nums.
AscendingDistances(n, nums) ==
    {ds \in [1..n -> {[num |-> k, den |-> DistDen] : k \in nums}] :
        \A i \in 1..n : \A j \in 1..n : i <= j => ds[i].num <= ds[j].num}

\* vectorstore.similarity_search_with_score(text, k=5): the k nearest entries
\* (all of them when the index holds fewer), each once, by ascending distance.
\* Which entries are nearest depends on the embedding of text: every choice.
similarity_search_with_score(vs, nums) ==
    LET n == Min(TopK, Len(vs))
        picks == {p \in [1..n -> 1..Len(vs)] :
                     \A i \in 1..n : \A j \in 1..n : p[i] = p[j] => i = j}
    IN  {[i \in 1..n |-> <<vs[p[i]], ds[i]>>] :
            p \in picks, ds \in AscendingDistances(n, nums)}

----------------------------------------------------------------------------
(* The ranking steps of analyze_resume (step 4) *)

\* Faulty variant: the lower bound of the ordinal check dropped, so that
\* the missing ordinal -1 selects the last job.
IsValidOrdinal_noLowerBound(idx, jobs) == idx < Len(jobs)

\* 0 <= idx < len(jobs_list)
IsValidOrdinal(idx, jobs) == 0 <= idx /\ idx < Len(jobs)

\* jobs_list[idx] raises IndexError outside -len .. len-1
IndexInRange(jobs, idx) == -Len(jobs) <= idx /\ idx < Len(jobs)

\* jobs_list[idx], a negative idx counting from the end
PyIndex(jobs, idx) ==
    IF idx >= 0 THEN jobs[idx + 1] ELSE jobs[Len(jobs) + idx + 1]

\* The dictionary appended to matches for one job.
MatchResult(job, scores) ==
    [job_id           |-> Get(job, "JobID", "N/A"),
     title            |-> Get(job, "Title", "Unknown"),
     location         |-> Get(job, "Location", "Remote/Not Specified"),
     match_percentage |-> scores.total_score,
     details          |-> scores]

\* for doc, dist in docs: ... (matches and missing after the loop; raised when
\* jobs_list[idx] is out of range)
RECURSIVE ScoreDocs(_, _, _)
ScoreDocs(docs, jobs, skills) ==
    IF docs = <<>>
    THEN [matches |-> <<>>, missing |-> {}, raised |-> FALSE]
    ELSE LET before == ScoreDocs(SubSeq(docs, 1, Len(docs) - 1), jobs, skills)
             doc    == docs[Len(docs)][1]
             dist   == docs[Len(docs)][2]
             idx    == Get(doc.metadata, "index", MissingOrdinal)
         IN  IF before.raised \/ ~IsValidOrdinal(idx, jobs)
             THEN before
             ELSE IF ~IndexInRange(jobs, idx)
             THEN [before EXCEPT !.raised = TRUE]
             ELSE LET scores == calculate_score(skills, PyIndex(jobs, idx),
                                                Similarity(dist))
                  IN  [matches |-> Append(before.matches,
                                          MatchResult(PyIndex(jobs, idx), scores)),
                       missing |-> before.missing \cup scores.missing_skills,
                       raised  |-> FALSE]

Reverse(s) == [i \in 1..Len(s) |-> s[Len(s) + 1 - i]]

\* s is sorted by descending key; m goes after every element whose key is >= its own.
InsertDescending(s, m) ==
    LET k == Cardinality({i \in 1..Len(s) :
                             s[i].match_percentage >= m.match_percentage})
    IN  SubSeq(s, 1, k) \o <<m>> \o SubSeq(s, k + 1, Len(s))

\* s is sorted by ascending key; m goes after every element whose key is <= its own.
InsertAscending(s, m) ==
    LET k == Cardinality({i \in 1..Len(s) :
                             s[i].match_percentage <= m.match_percentage})
    IN  SubSeq(s, 1, k) \o <<m>> \o SubSeq(s, k + 1, Len(s))

RECURSIVE SortAscending(_)
SortAscending(ms) ==
    IF ms = <<>> THEN <<>>
    ELSE InsertAscending(SortAscending(SubSeq(ms, 1, Len(ms) - 1)), ms[Len(ms)])

\* Faulty variant: sorted ascending and then reversed, which reverses the ties.
SortMatches_reversed(ms) == Reverse(SortAscending(ms))

\* matches.sort(key=lambda m: m["match_percentage"], reverse=True): list.sort
\* is stable, and reverse=True keeps the order of equal keys.
RECURSIVE SortMatches(_)
SortMatches(ms) ==
    IF ms = <<>> THEN <<>>
    ELSE InsertDescending(SortMatches(SubSeq(ms, 1, Len(ms) - 1)), ms[Len(ms)])

----------------------------------------------------------------------------
(* Startup: lifespan, load_vectorstore, build_vectorstore *)

MaxServerJobs == 2       \* longest dataset on disk in specification Spec
ServerDistNums == {0, 1} \* numerators of a query's distances in specification Spec

\* The first n jobs of the catalogue, repeated as often as needed.
DatasetOf(n) == [i \in 1..n |-> Catalogue[((i - 1) % Len(Catalogue)) + 1]]

\* The same, starting at the second job of the catalogue.
ShiftedDatasetOf(n) == [i \in 1..n |-> Catalogue[(i % Len(Catalogue)) + 1]]

\* json.load(f)[:100]
LoadJobs(file) == Take(file, CorpusLimit)

\* load_vectorstore(): what it leaves in the globals and whether it raised.
\* FAISS.load_local raises on an unreadable directory; json.load raises on an
\* unreadable dataset, after vectorstore was assigned.
load_vectorstore(dir, file, jl) ==
    IF dir = CorruptPath
    THEN [raised |-> TRUE, vectorstore |-> None, jobs_list |-> jl]
    ELSE IF file = AbsentPath
    THEN [raised |-> FALSE, vectorstore |-> Index(dir.data), jobs_list |-> jl]
    ELSE IF file = CorruptPath
    THEN [raised |-> TRUE, vectorstore |-> Index(dir.data), jobs_list |-> jl]
    ELSE [raised |-> FALSE, vectorstore |-> Index(dir.data),
          jobs_list |-> LoadJobs(file.data)]

\* build_vectorstore() up to its await: returns at once without a dataset,
\* raises on an unreadable one, else assigns jobs_list and awaits the worker.
BuildStart(file, jl) ==
    IF file = AbsentPath
    THEN [pc |-> "serving", jobs_list |-> jl]
    ELSE IF file = CorruptPath
    THEN [pc |-> "aborted", jobs_list |-> jl]
    ELSE [pc |-> "building", jobs_list |-> LoadJobs(file.data)]

\* lifespan, FAISS_DIR present: try: load_vectorstore() except: await build_vectorstore()
LifespanLoad ==
    /\ lifespan_pc = "init"
    /\ faissDir # AbsentPath
    /\ LET loaded == load_vectorstore(faissDir, jobsFile, jobs_list)
           build  == BuildStart(jobsFile, loaded.jobs_list)
       IN  /\ vectorstore' = loaded.vectorstore
           /\ jobs_list' = IF loaded.raised THEN build.jobs_list ELSE loaded.jobs_list
           /\ lifespan_pc' = IF loaded.raised THEN build.pc ELSE "serving"
    /\ initCount' = initCount + 1
    /\ UNCHANGED <<jobsFile, faissDir, files, req, call, rank>>

\* lifespan, FAISS_DIR absent: await build_vectorstore()
LifespanBuild ==
    /\ lifespan_pc = "init"
    /\ faissDir = AbsentPath
    /\ LET build == BuildStart(jobsFile, jobs_list)
       IN  /\ jobs_list' = build.jobs_list
           /\ lifespan_pc' = build.pc
    /\ initCount' = initCount + 1
    /\ UNCHANGED <<jobsFile, faissDir, vectorstore, files, req, call, rank>>

\* The worker returns the index: vectorstore is assigned and saved, lifespan yields.
BuildWorkerReturns ==
    /\ lifespan_pc = "building"
    /\ vectorstore' = Index(from_texts(jobs_list))
    /\ faissDir' = Stored(from_texts(jobs_list))
    /\ lifespan_pc' = "serving"
    /\ UNCHANGED <<jobsFile, jobs_list, initCount, files, req, call, rank>>

\* FAISS.from_texts raises in the worker (the embedding backend fails): the
\* exception leaves build_vectorstore and lifespan, and startup fails.
BuildWorkerRaises ==
    /\ lifespan_pc = "building"
    /\ lifespan_pc' = "aborted"
    /\ UNCHANGED <<jobsFile, faissDir, vectorstore, jobs_list, initCount, files,
                   req, call, rank>>

\* Faulty variant: requests accepted while the lifespan still awaits the worker.
AcceptsRequests_early == lifespan_pc \in {"building", "serving"}

\* The server accepts requests once lifespan has reached its yield.
AcceptsRequests == lifespan_pc = "serving"

----------------------------------------------------------------------------
(* analyze_resume *)

Requests == {"r1", "r2"}
Filenames == {"cv.pdf", "resume.docx"}
Kinds == {"resume", "blank", "garbled"}
Causes == {"rate limit exceeded", "connection timed out"}
LLMSkillLists == {<<>>, <<"python">>, <<"Python", "sql">>}

Absent == [exists |-> FALSE]

Idle == [pc |-> "idle"]

\* The bytes request r uploads, of the given kind.
Upload(r, kind) == [kind |-> kind, of |-> r]

\* extract_text on the bytes found at the path: PdfReader / docx raise on
\* unreadable bytes (HTTPException 400), a blank document gives "".
extract_text(bytes) ==
    IF bytes.kind = "garbled"
    THEN [raised |-> TRUE, detail |-> "Cannot read file"]
    ELSE IF bytes.kind = "blank"
    THEN [raised |-> FALSE, text |-> [chars |-> "", of |-> bytes.of]]
    ELSE [raised |-> FALSE, text |-> [chars |-> "resume", of |-> bytes.of]]

\* finally: if os.path.exists(tmp): os.remove(tmp)
Cleanup(fs, name) == [fs EXCEPT ![name] = Absent]

\* The response of a finished request.
Done(r, name, status, detail, failedAt, top_jobs) ==
    [pc |-> "done", filename |-> name, status |-> status, detail |-> detail,
     failedAt |-> failedAt, top_jobs |-> top_jobs]

\* Steps 4 and on, up to the await of report_chain: score, sort, or the
\* generic except branch when scoring raised.
AfterSearch(r, docs, skills) ==
    LET scored == ScoreDocs(docs, jobs_list, skills)
    IN  IF scored.raised
        THEN /\ req' = [req EXCEPT ![r] =
                    Done(r, req[r].filename, 500, "list index out of range",
                         "scoring", <<>>)]
             /\ files' = Cleanup(files, req[r].filename)
        ELSE /\ req' = [req EXCEPT ![r] =
                    [pc |-> "report_chain", filename |-> req[r].filename,
                     text |-> req[r].text, docs |-> docs, skills |-> skills,
                     matches |-> SortMatches(scored.matches),
                     missing |-> scored.missing]]
             /\ UNCHANGED files

\* The upload cannot be staged: open() raises (no file is made), or
\* file.file.read() / f.write() raises after open() made or emptied the file.
\* This is outside the try: no finally runs, the server answers 500.
StagingFails(r) ==
    /\ AcceptsRequests
    /\ req[r].pc = "idle"
    /\ \E name \in Filenames, fileMade \in BOOLEAN :
        /\ files' = IF fileMade
                    THEN [files EXCEPT ![name] =
                            [exists |-> TRUE, bytes |-> Upload(r, "blank"), by |-> r]]
                    ELSE files
        /\ req' = [req EXCEPT ![r] =
                    Done(r, name, 500, "Internal Server Error", "staging", <<>>)]
    /\ UNCHANGED <<jobsFile, faissDir, lifespan_pc, vectorstore, jobs_list,
                   initCount, call, rank>>

\* Lines 148-158: the upload is written to temp_<filename>, its text is
\* extracted from that file, and the handler either fails with 400 (and
\* cleans up) or awaits skill_chain.  No await lies between these lines.
StageAndExtract(r) ==
    /\ AcceptsRequests
    /\ req[r].pc = "idle"
    /\ \E name \in Filenames, kind \in Kinds :
        LET staged == [files EXCEPT ![name] =
                         [exists |-> TRUE, bytes |-> Upload(r, kind), by |-> r]]
            got    == extract_text(staged[name].bytes)
        IN  IF got.raised
            THEN /\ req' = [req EXCEPT ![r] =
                        Done(r, name, 400, got.detail, "extract", <<>>)]
                 /\ files' = Cleanup(staged, name)
            ELSE IF got.text.chars = ""
            THEN /\ req' = [req EXCEPT ![r] =
                        Done(r, name, 400, "Could not extract text.", "extract", <<>>)]
                 /\ files' = Cleanup(staged, name)
            ELSE /\ req' = [req EXCEPT ![r] =
                        [pc |-> "skill_chain", filename |-> name, text |-> got.text]]
                 /\ files' = staged
    /\ UNCHANGED <<jobsFile, faissDir, lifespan_pc, vectorstore, jobs_list,
                   initCount, call, rank>>

\* skill_chain returns: skills = result.get("skills", []); then the search is
\* handed to the worker, or docs = [] without a vectorstore.
SkillChainReturns(r) ==
    /\ req[r].pc = "skill_chain"
    /\ \E skills \in LLMSkillLists :
        IF vectorstore # None
        THEN /\ req' = [req EXCEPT ![r] =
                    [pc |-> "search", filename |-> req[r].filename,
                     text |-> req[r].text, skills |-> skills]]
             /\ UNCHANGED files
        ELSE AfterSearch(r, <<>>, skills)
    /\ UNCHANGED <<jobsFile, faissDir, lifespan_pc, vectorstore, jobs_list,
                   initCount, call, rank>>

\* similarity_search_with_score returns from the worker: steps 4 follow.
SearchReturns(r) ==
    /\ req[r].pc = "search"
    /\ \E docs \in similarity_search_with_score(vectorstore.entries,
                                                  ServerDistNums) :
        AfterSearch(r, docs, req[r].skills)
    /\ UNCHANGED <<jobsFile, faissDir, lifespan_pc, vectorstore, jobs_list,
                   initCount, call, rank>>

\* report_chain returns: the 200 response, then finally.
ReportReturns(r) ==
    /\ req[r].pc = "report_chain"
    /\ req' = [req EXCEPT ![r] =
                Done(r, req[r].filename, 200, "", "", req[r].matches)]
    /\ files' = Cleanup(files, req[r].filename)
    /\ UNCHANGED <<jobsFile, faissDir, lifespan_pc, vectorstore, jobs_list,
                   initCount, call, rank>>

\* An awaited call raises e: except Exception as e: raise HTTPException(500, str(e)),
\* then finally.
BackendRaises(r) ==
    /\ req[r].pc \in {"skill_chain", "search", "report_chain"}
    /\ \E e \in Causes :
        req' = [req EXCEPT ![r] =
                  Done(r, req[r].filename, 500, e, req[r].pc, <<>>)]
    /\ files' = Cleanup(files, req[r].filename)
    /\ UNCHANGED <<jobsFile, faissDir, lifespan_pc, vectorstore, jobs_list,
                   initCount, call, rank>>

----------------------------------------------------------------------------
(* Specification Spec: one process, from its start, with two requests *)

\* What job_dataset.json may hold when the process starts.
DiskDatasets ==
    {AbsentPath, CorruptPath}
    \cup {Stored(DatasetOf(n)) : n \in 0..MaxServerJobs}

\* What faiss_index/ may hold when the process starts: nothing, an unreadable
\* index, or the index an earlier run built from the dataset of its day.
DiskIndexes ==
    {AbsentPath, CorruptPath}
    \cup {Stored(from_texts(DatasetOf(n))) : n \in 1..MaxServerJobs}

Init ==
    /\ jobsFile \in DiskDatasets
    /\ faissDir \in DiskIndexes
    /\ lifespan_pc = "init"
    /\ vectorstore = None
    /\ jobs_list = <<>>
    /\ initCount = 0
    /\ files = [n \in Filenames |-> Absent]
    /\ req = [r \in Requests |-> Idle]
    /\ call = [st |-> "none"]
    /\ rank = [st |-> "none"]

Next ==
    \/ LifespanLoad
    \/ LifespanBuild
    \/ BuildWorkerReturns
    \/ BuildWorkerRaises
    \/ \E r \in Requests :
        \/ StageAndExtract(r)
        \/ StagingFails(r)
        \/ SkillChainReturns(r)
        \/ SearchReturns(r)
        \/ ReportReturns(r)
        \/ BackendRaises(r)

Spec == Init /\ [][Next]_vars

----------------------------------------------------------------------------
(* Specification SpecScore: calculate_score on every input within the bounds *)

SkillLists == UNION {[1..n -> SkillStrings] : n \in 0..MaxSkills}

Distances == {[num |-> n, den |-> DistDen] : n \in 0..MaxDistNum}

ScoreJobs ==
    {[Title |-> "Analyst"]}
    \cup {[Title |-> "Analyst", Skills |-> s] : s \in SkillLists}

ServerIdle ==
    /\ jobsFile = AbsentPath
    /\ faissDir = AbsentPath
    /\ lifespan_pc = "down"
    /\ vectorstore = None
    /\ jobs_list = <<>>
    /\ initCount = 0
    /\ files = [n \in Filenames |-> Absent]
    /\ req = [r \in Requests |-> Idle]

InitScore ==
    /\ ServerIdle
    /\ rank = [st |-> "none"]
    /\ call \in [st : {"args"}, resume_skills : SkillLists, job : ScoreJobs,
                 dist : Distances]

ScoreCall ==
    /\ call.st = "args"
    /\ call' = [st |-> "returned",
                resume_skills |-> call.resume_skills,
                job |-> call.job,
                dist |-> call.dist,
                result |-> calculate_score(call.resume_skills, call.job,
                                           Similarity(call.dist))]
    /\ UNCHANGED <<serverVars, rank>>

NextScore == ScoreCall

SpecScore == InitScore /\ [][NextScore]_vars

----------------------------------------------------------------------------
\* C6: every percentage calculate_score reports (semantic_score, skill_match,
\* total_score, the last being match_percentage) lies in 0..100, i.e. in
\* 0..1000 tenths, for every job, skill list and distance d >= 0.
ScoresWithinPercentRange ==
    call.st = "returned" =>
        /\ call.result.semantic_score \in 0..1000
        /\ call.result.skill_match \in 0..1000
        /\ call.result.total_score \in 0..1000

\* A call at distance 0 with every job skill matched: the largest scores.
FullMatchScored ==
    /\ call.st = "returned"
    /\ call.dist.num = 0
    /\ call.result.skill_match = 1000
    /\ call.result.semantic_score = 1000
    /\ call.result.total_score = 960

\* C3 as stated: missing_skills is a subset of the skill strings of the job
\* record and holds no string of the candidate's lower-cased skill set.
MissingSubsetOfStoredSkills ==
    call.st = "returned" =>
        /\ call.result.missing_skills \subseteq Range(Get(call.job, "Skills", <<>>))
        /\ call.result.missing_skills \cap LowerSet(call.resume_skills) = {}

\* C3 amended: missing_skills is a subset of the job's lower-cased skill set
\* and holds no string of the candidate's lower-cased skill set; a job skill
\* stored with capitals is reported in lower case.
MissingSubsetOfLoweredSkills ==
    call.st = "returned" =>
        /\ call.result.missing_skills \subseteq LowerSet(Get(call.job, "Skills", <<>>))
        /\ call.result.missing_skills \cap LowerSet(call.resume_skills) = {}

\* A job skill stored with capitals that the candidate lacks is reported.
CapitalisedSkillMissing ==
    /\ call.st = "returned"
    /\ "Python" \in Range(Get(call.job, "Skills", <<>>))
    /\ "python" \in call.result.missing_skills
    /\ "sql" \in LowerSet(call.resume_skills)

----------------------------------------------------------------------------
\* C1: when both the load and the build fail, initialisation still completes
\* (lifespan reaches its yield, it does not abort) with no vectorstore, and a
\* request served without a vectorstore gets an empty query result.
LoadFailed ==
    /\ faissDir # AbsentPath
    /\ faissDir = CorruptPath \/ jobsFile = CorruptPath

StartupDegradesInsteadOfAborting ==
    /\ (LoadFailed /\ lifespan_pc \notin {"init", "building"}) =>
            lifespan_pc = "serving"
    /\ \A r \in Requests :
            (req[r].pc = "report_chain" /\ vectorstore = None) =>
                req[r].docs = <<>>

\* C2: once a request has finished, on whichever exit path, the temporary
\* file it created no longer exists.
TempFileGoneWhenFinished ==
    \A r \in Requests :
        req[r].pc = "done" =>
            ~(files[req[r].filename].exists /\ files[req[r].filename].by = r)

\* C7: the 500 responses to a failure of skill extraction, index query or
\* report generation all carry the same message, whatever the exception was.
ServerErrorsAreGeneric ==
    \A r1 \in Requests : \A r2 \in Requests :
        (/\ req[r1].pc = "done" /\ req[r1].status = 500
         /\ req[r2].pc = "done" /\ req[r2].status = 500
         /\ req[r1].failedAt \in {"skill_chain", "search", "report_chain"}
         /\ req[r2].failedAt \in {"skill_chain", "search", "report_chain"})
        => req[r1].detail = req[r2].detail

\* C8: whenever the index is Ready after startup, by load or by build, it
\* holds one entry per job of jobs_list, at most 100, and entry i carries
\* ordinal i and the composite text of jobs_list[i].
ReadyIndexMatchesCorpus ==
    (lifespan_pc = "serving" /\ vectorstore # None) =>
        /\ Len(vectorstore.entries) = Len(jobs_list)
        /\ Len(jobs_list) <= CorpusLimit
        /\ \A i \in 1..Len(vectorstore.entries) :
            /\ Get(vectorstore.entries[i].metadata, "index", MissingOrdinal) = i - 1
            /\ i <= Len(jobs_list)
            /\ vectorstore.entries[i].text = job_text(jobs_list[i])

\* C9, the part the code keeps: a request past extraction holds the text of
\* the bytes it uploaded itself.
ExtractsOwnBytes ==
    \A r \in Requests :
        req[r].pc \in {"skill_chain", "search", "report_chain"} =>
            req[r].text.of = r

\* C9: concurrent requests, also with the same filename, share no mutable
\* state: each extracts the text of its own bytes, and the file a request
\* staged stays as it staged it until the request itself cleans up.
RequestsShareNoMutableState ==
    /\ ExtractsOwnBytes
    /\ \A r \in Requests :
        req[r].pc \in {"skill_chain", "search", "report_chain"} =>
            /\ files[req[r].filename].exists
            /\ files[req[r].filename].by = r

\* C10: initialisation runs once per process and has completed (lifespan is
\* at its yield, neither loading nor awaiting the build worker) before any
\* request runs, so no request sees the globals half assigned.
InitialisedOnceBeforeRequests ==
    /\ initCount <= 1
    /\ \A r \in Requests :
        req[r].pc # "idle" => (lifespan_pc = "serving" /\ initCount = 1)

\* A request queries the index after startup has assigned both globals.
RequestQueriesInitialisedIndex ==
    /\ \E r \in Requests : req[r].pc = "search"
    /\ jobsFile = Stored(DatasetOf(2))
    /\ vectorstore = Index(from_texts(jobs_list))
    /\ jobs_list = DatasetOf(2)
    /\ initCount = 1

----------------------------------------------------------------------------
(* Specification SpecRank: the ranking steps on the results of one query,   *)
(* in a process whose startup loaded the index found on disk.              *)

MaxRankJobs == 3         \* longest dataset and largest index
MaxRankDistNum == 1      \* distances of the query are 0/DistDen .. MaxRankDistNum/DistDen

InitRank ==
    /\ \E n \in 1..MaxRankJobs, m \in 0..MaxRankJobs,
          foreign \in BOOLEAN, shifted \in BOOLEAN :
        /\ faissDir = Stored(IF foreign THEN ForeignIndex(DatasetOf(n))
                                        ELSE from_texts(DatasetOf(n)))
        /\ jobsFile = Stored(IF shifted THEN ShiftedDatasetOf(m) ELSE DatasetOf(m))
        /\ LET loaded == load_vectorstore(faissDir, jobsFile, <<>>)
           IN  /\ vectorstore = loaded.vectorstore
               /\ jobs_list = loaded.jobs_list
    /\ lifespan_pc = "serving"
    /\ initCount = 1
    /\ files = [n \in Filenames |-> Absent]
    /\ req = [r \in Requests |-> Idle]
    /\ call = [st |-> "none"]
    /\ rank \in [st : {"query"}, skills : LLMSkillLists]

\* Steps 3 and 4 of analyze_resume: the query, the scoring loop, the sort.
RankQuery ==
    /\ rank.st = "query"
    /\ \E docs \in similarity_search_with_score(vectorstore.entries,
                                                0..MaxRankDistNum) :
        LET scored == ScoreDocs(docs, jobs_list, rank.skills)
        IN  rank' = [st |-> "scored", skills |-> rank.skills, docs |-> docs,
                     raised |-> scored.raised,
                     matches |-> SortMatches(scored.matches),
                     missing |-> scored.missing]
    /\ UNCHANGED <<serverVars, call>>

NextRank == RankQuery

SpecRank == InitRank /\ [][NextRank]_vars

\* match_percentage never rises along ms.
Descending(ms) ==
    \A i \in 1..Len(ms) : \A j \in 1..Len(ms) :
        i <= j => ms[i].match_percentage >= ms[j].match_percentage

\* How often x occurs in s.
Count(s, x) == Cardinality({i \in 1..Len(s) : s[i] = x})

\* The ordinal of a query result, 0 <= ordinal < corpus size or not.
OrdinalOf(d) == Get(d[1].metadata, "index", MissingOrdinal)
HasCorpusOrdinal(d) == OrdinalOf(d) \in 0..(Len(jobs_list) - 1)

\* The MatchResult the claim expects of a query result with a valid ordinal.
ExpectedMatch(d) ==
    MatchResult(jobs_list[OrdinalOf(d) + 1],
                calculate_score(rank.skills, jobs_list[OrdinalOf(d) + 1],
                                Similarity(d[2])))

\* C4: a query result whose ordinal is missing or outside the corpus gives no
\* MatchResult and no error, every other one gives exactly one MatchResult,
\* built from jobs_list[ordinal], and the matches are in descending order of
\* match_percentage.
InvalidOrdinalsSkipped ==
    rank.st = "scored" =>
        LET valid    == SelectSeq(rank.docs, HasCorpusOrdinal)
            expected == [i \in 1..Len(valid) |-> ExpectedMatch(valid[i])]
        IN  /\ ~rank.raised
            /\ Len(rank.matches) = Len(valid)
            /\ \A i \in 1..Len(valid) :
                Count(rank.matches, expected[i]) = Count(expected, expected[i])
            /\ Descending(rank.matches)

\* A query returned a result without ordinal, or with an ordinal past the
\* corpus, next to two valid ones.
StaleOrdinalDropped ==
    /\ rank.st = "scored"
    /\ Len(rank.docs) = 3
    /\ Len(rank.matches) = 2
    /\ \E i \in 1..3 : OrdinalOf(rank.docs[i]) >= Len(jobs_list)

\* C5: top_jobs is in non-increasing order of match_percentage, and results
\* of equal match_percentage keep the order in which the query returned
\* their jobs.
RankingIsStable ==
    rank.st = "scored" =>
        LET unsorted == ScoreDocs(rank.docs, jobs_list, rank.skills).matches
        IN  /\ Descending(rank.matches)
            /\ \A p \in {unsorted[i].match_percentage : i \in 1..Len(unsorted)} :
                LET HasP(m) == m.match_percentage = p
                IN  SelectSeq(rank.matches, HasP) = SelectSeq(unsorted, HasP)

\* Two different jobs tie, behind a better match that the query returned last.
TiedMatchesRanked ==
    /\ rank.st = "scored"
    /\ Len(rank.matches) = 3
    /\ rank.matches[2].match_percentage = rank.matches[3].match_percentage
    /\ rank.matches[2] # rank.matches[3]
    /\ rank.matches[1].match_percentage > rank.matches[2].match_percentage
    /\ OrdinalOf(rank.docs[3]) = 0
    /\ rank.matches[1].job_id = "J1"

====
